---------------------------- MODULE Spec2Model ----------------------------
(***************************************************************************)
(* Request validation and error normalisation of the AI chat service, in   *)
(* its two variants deeppy.py and index.py.  One HTTP request is handled   *)
(* at a time (requests share no state); the call to the chat backend is    *)
(* the only suspension point, so a POST /chat is two steps: the request    *)
(* runs up to the backend call, then the backend returns or raises and the *)
(* handler finishes.                                                       *)
(***************************************************************************)
EXTENDS Integers, Sequences, FiniteSets, TLC

(* ------------------------------ bounds -------------------------------- *)

\* longest text a request carries as its input (or as a string body)
MaxLen == 3
\* largest MAX_INPUT_LENGTH the environment configures
MaxCfg == 2

(* ------------------------------- text --------------------------------- *)

\* characters a client sends: a letter, a space and the two angle brackets
Chars == {"a", " ", "<", ">"}

RECURSIVE StringsOfLen(_)
StringsOfLen(n) ==
    IF n = 0 THEN {<<>>}
    ELSE {Append(s, c) : s \in StringsOfLen(n - 1), c \in Chars}

Strings == UNION {StringsOfLen(n) : n \in 0..MaxLen}

\* the key the validators look for
INPUT_KEY == <<"i", "n", "p", "u", "t">>

\* str.replace(old, new) for a one-character old
RECURSIVE replace(_, _, _)
replace(text, old, new) ==
    IF text = <<>> THEN <<>>
    ELSE (IF Head(text) = old THEN new ELSE <<Head(text)>>)
             \o replace(Tail(text), old, new)

IsSpace(c) == c = " "

RECURSIVE lstrip(_)
lstrip(text) ==
    IF text # <<>> /\ IsSpace(Head(text)) THEN lstrip(Tail(text)) ELSE text

RECURSIVE rstrip(_)
rstrip(text) ==
    IF text # <<>> /\ IsSpace(text[Len(text)])
    THEN rstrip(SubSeq(text, 1, Len(text) - 1))
    ELSE text

\* str.strip()
strip(text) == rstrip(lstrip(text))

\* text[:n]
Prefix(text, n) == SubSeq(text, 1, IF Len(text) < n THEN Len(text) ELSE n)

\* sub in text, for strings
Contains(text, sub) ==
    \E i \in 0..(Len(text) - Len(sub)) : SubSeq(text, i + 1, i + Len(sub)) = sub

LT_ENTITY == <<"&", "l", "t", ";">>
GT_ENTITY == <<"&", "g", "t", ";">>
AMP_ENTITY == <<"&", "a", "m", "p", ";">>

\* a sanitizer that escapes the ampersand as well, after the brackets
sanitize_input_amp(text) ==
    strip(replace(replace(replace(text, "<", LT_ENTITY), ">", GT_ENTITY),
                  "&", AMP_ENTITY))

sanitize_input(text) ==
    strip(replace(replace(text, "<", LT_ENTITY), ">", GT_ENTITY))

(* --------------------------- JSON values ------------------------------ *)

JString(s) == [type |-> "string", str |-> s, num |-> 0]
JNumber(n) == [type |-> "number", str |-> <<>>, num |-> n]
JBoolean(n) == [type |-> "boolean", str |-> <<>>, num |-> n]
JNull == [type |-> "null", str |-> <<>>, num |-> 0]

\* values a client puts under the "input" key
InputValues ==
    {JString(s) : s \in Strings} \cup {JNumber(1), JBoolean(1), JNull}

MODEL_KEY == <<"m">>
Keys == {INPUT_KEY, MODEL_KEY}

JObject(keys, input) ==
    [type |-> "object", keys |-> keys, input |-> input,
     items |-> <<>>, str |-> <<>>, num |-> 0]
JArray(items) ==
    [type |-> "array", keys |-> {}, input |-> JNull,
     items |-> items, str |-> <<>>, num |-> 0]
JScalar(type, s, n) ==
    [type |-> type, keys |-> {}, input |-> JNull,
     items |-> <<>>, str |-> s, num |-> n]

\* a body that is not syntactically valid JSON
InvalidJson == JScalar("invalid", <<>>, 0)

\* bodies a client sends
Bodies ==
    {JObject(ks, v) : ks \in {k \in SUBSET Keys : INPUT_KEY \in k}, v \in InputValues}
    \cup {JObject(ks, JNull) : ks \in {k \in SUBSET Keys : INPUT_KEY \notin k}}
    \cup {JArray(it) : it \in {<<>>, <<INPUT_KEY>>, <<MODEL_KEY>>,
                                <<INPUT_KEY, MODEL_KEY>>}}
    \cup {JScalar("string", s, 0) : s \in Strings \cup {INPUT_KEY}}
    \cup {JScalar("number", <<>>, n) : n \in 0..1}
    \cup {JScalar("boolean", <<>>, n) : n \in 0..1}
    \cup {JScalar("null", <<>>, 0), InvalidJson}

\* a request: whether its content type is JSON (request.is_json), and its body
Requests == [is_json : BOOLEAN, body : Bodies]

Sized(data) == data.type \in {"object", "array", "string"}

\* "input" in data, for the sized types
HasInput(data) ==
    CASE data.type = "object" -> INPUT_KEY \in data.keys
      [] data.type = "array" -> \E i \in 1..Len(data.items) : data.items[i] = INPUT_KEY
      [] data.type = "string" -> Contains(data.str, INPUT_KEY)
      [] OTHER -> FALSE

\* len(data), for the sized types
len(data) ==
    CASE data.type = "object" -> Cardinality(data.keys)
      [] data.type = "array" -> Len(data.items)
      [] data.type = "string" -> Len(data.str)
      [] OTHER -> 0

\* bool(data)
Truthy(data) ==
    CASE Sized(data) -> len(data) > 0
      [] data.type \in {"number", "boolean"} -> data.num # 0
      [] OTHER -> FALSE

(* ----------------------------- responses ------------------------------ *)

NoText == <<>>

Response(code, status, error, message, text) ==
    [code |-> code, status |-> status, error |-> error,
     message |-> message, response |-> text]

NoResponse == Response(0, "", "", "", NoText)

\* what a wrapper or handler does: return a response, raise, or call on
Return(r) == [tag |-> "return", resp |-> r, exc |-> ""]
Raise(e) == [tag |-> "raise", resp |-> NoResponse, exc |-> e]
CallNext == [tag |-> "call", resp |-> NoResponse, exc |-> ""]

json_error(message, status_code) ==
    Response(status_code, "error", "", message, NoText)

(* ------------------------------ backend ------------------------------- *)

\* texts of the exceptions the backend client raises
Details == {"model 'deepseek-r1' not found", "connect ECONNREFUSED 127.0.0.1:11434"}

\* texts the model generates
ReplyTexts == {<<>>, <<"H", "i">>}

Reply(shape, text) ==
    [tag |-> "reply", shape |-> shape, text |-> text, exc |-> "", detail |-> ""]
Raises(exc, detail) ==
    [tag |-> "raise", shape |-> "", text |-> NoText, exc |-> exc, detail |-> detail]

NoOutcome == [tag |-> "none", shape |-> "", text |-> NoText, exc |-> "", detail |-> ""]

\* replies of the chat call: None or {}, no "message", a message without
\* "content", a message with content
Replies ==
    {Reply(sh, NoText) : sh \in {"absent", "no_message", "no_content"}}
    \cup {Reply("content", t) : t \in ReplyTexts}

\* exceptions below Exception that the chat call raises
ExceptionKinds ==
    {"ResponseError", "RequestError", "ValueError", "ConnectionError", "Exception"}

BackendOutcomes ==
    Replies \cup {Raises(e, d) : e \in ExceptionKinds, d \in Details}

(* ------------------------------- state -------------------------------- *)

VARIABLES
    MAX_INPUT_LENGTH, \* app.config["MAX_INPUT_LENGTH"], read from the environment
    pc,               \* "idle", "calling" (inside the backend chat call), "done"
    variant,          \* the application serving the request: "deeppy" or "index"
    endpoint,         \* "chat" or "health"
    request,          \* the request being served
    handlerRan,       \* the body of chat_handler was entered
    prompt,           \* content of the message passed to the backend chat call
    requestLog,       \* prompts written by logger.info in chat_handler
    backendCalls,     \* calls of the backend chat operation for this request
    outcome,          \* what the backend chat call returned or raised
    response,         \* the HTTP response
    backendUp,        \* the backend is reachable (environment)
    healthQuery,      \* liveness query of /health: "none", "ok" or "failed"
    rawText,          \* a string handed to sanitize_input on its own
    sanitized         \* the successive results of sanitize_input on rawText

vars == <<MAX_INPUT_LENGTH, pc, variant, endpoint, request, handlerRan, prompt,
          requestLog, backendCalls, outcome, response, backendUp, healthQuery,
          rawText, sanitized>>

NoRequest == [is_json |-> FALSE, body |-> InvalidJson]

(* ------------------------------ deeppy.py ----------------------------- *)

validate_json(req) ==
    IF ~req.is_json THEN Return(json_error("JSON payload required", 415))
    ELSE IF req.body.type = "invalid" THEN Return(json_error("Malformed JSON", 400))
    ELSE CallNext

\* validate_input measuring the trimmed text against the maximum
validate_input_strip_len(data) ==
    IF ~Sized(data) THEN Raise("TypeError")
    ELSE IF ~HasInput(data) THEN Return(json_error("Missing 'input' field", 400))
    ELSE IF len(data) > 1 THEN Return(json_error("Unexpected fields in payload", 400))
    ELSE IF data.type # "object" THEN Raise("TypeError")
    ELSE IF INPUT_KEY \notin data.keys THEN Raise("KeyError")
    ELSE IF data.input.type # "string" \/ strip(data.input.str) = <<>>
         THEN Return(json_error("Input must be non-empty string", 422))
    ELSE IF Len(strip(data.input.str)) > MAX_INPUT_LENGTH
         THEN Return(json_error("Input exceeds MAX_INPUT_LENGTH characters", 413))
    ELSE CallNext

\* validate_input looking at the value of "input" before the extra keys
validate_input_value_first(data) ==
    IF ~Sized(data) THEN Raise("TypeError")
    ELSE IF ~HasInput(data) THEN Return(json_error("Missing 'input' field", 400))
    ELSE IF data.type # "object" THEN Raise("TypeError")
    ELSE IF INPUT_KEY \notin data.keys THEN Raise("KeyError")
    ELSE IF data.input.type # "string" \/ strip(data.input.str) = <<>>
         THEN Return(json_error("Input must be non-empty string", 422))
    ELSE IF len(data) > 1 THEN Return(json_error("Unexpected fields in payload", 400))
    ELSE IF Len(data.input.str) > MAX_INPUT_LENGTH
         THEN Return(json_error("Input exceeds MAX_INPUT_LENGTH characters", 413))
    ELSE CallNext

validate_input(data) ==
    IF ~Sized(data) THEN Raise("TypeError")
    ELSE IF ~HasInput(data) THEN Return(json_error("Missing 'input' field", 400))
    ELSE IF len(data) > 1 THEN Return(json_error("Unexpected fields in payload", 400))
    ELSE IF data.type # "object" THEN Raise("TypeError")
    ELSE IF INPUT_KEY \notin data.keys THEN Raise("KeyError")
    ELSE IF data.input.type # "string" \/ strip(data.input.str) = <<>>
         THEN Return(json_error("Input must be non-empty string", 422))
    ELSE IF Len(data.input.str) > MAX_INPUT_LENGTH
         THEN Return(json_error("Input exceeds MAX_INPUT_LENGTH characters", 413))
    ELSE CallNext

\* the limiter wrapped around chat_handler: raises when the quota is used up
limiter_limit(limited) ==
    IF limited THEN Raise("RateLimitExceeded") ELSE CallNext

rate_limit_error == json_error("Rate limit exceeded", 429)

deeppy_handle_unexpected_error == json_error("Internal server error", 500)

\* the error handler the application picks for an exception leaving the view
deeppy_errorhandler(exc) ==
    IF exc = "RateLimitExceeded" THEN rate_limit_error
    ELSE deeppy_handle_unexpected_error

\* the wrappers of the /chat view, outermost first, up to chat_handler
deeppy_chat_route(req, limited) ==
    LET j == validate_json(req) IN
    IF j.tag # "call" THEN j
    ELSE LET v == validate_input(req.body) IN
         IF v.tag # "call" THEN v
         ELSE limiter_limit(limited)

GenReturn(text) == [tag |-> "return", text |-> text, message |-> ""]
GenRaise(message) == [tag |-> "raise", text |-> NoText, message |-> message]

\* generate_ai_response, from the point where chat() returns or raises
generate_ai_response(o) ==
    IF o.tag = "raise" THEN GenRaise("AI processing failed")
    ELSE IF o.shape \in {"absent", "no_message"} THEN GenRaise("AI processing failed")
    ELSE IF o.shape = "no_content" THEN GenReturn(NoText)
    ELSE GenReturn(o.text)

\* chat_handler, from the return of generate_ai_response
deeppy_chat_finish(o) ==
    LET g == generate_ai_response(o) IN
    IF g.tag = "return" THEN Response(200, "success", "", "", g.text)
    ELSE json_error(g.message, 500)

LOG_PREFIX == 50

DeeppyChat ==
    /\ pc = "idle"
    /\ \E req \in Requests, limited \in BOOLEAN :
        LET r == deeppy_chat_route(req, limited)
            user_input == sanitize_input(req.body.input.str)
        IN  /\ variant' = "deeppy"
            /\ endpoint' = "chat"
            /\ request' = req
            /\ IF r.tag = "call"
               THEN /\ handlerRan' = TRUE
                    /\ requestLog' = <<Prefix(user_input, LOG_PREFIX)>>
                    /\ prompt' = JString(user_input)
                    /\ backendCalls' = backendCalls + 1
                    /\ pc' = "calling"
                    /\ UNCHANGED response
               ELSE /\ response' = IF r.tag = "return" THEN r.resp
                                   ELSE deeppy_errorhandler(r.exc)
                    /\ pc' = "done"
                    /\ UNCHANGED <<handlerRan, requestLog, prompt, backendCalls>>
    /\ UNCHANGED <<rawText, sanitized, MAX_INPUT_LENGTH, outcome, backendUp, healthQuery>>

DeeppyBackendReturns ==
    /\ pc = "calling"
    /\ variant = "deeppy"
    /\ \E o \in BackendOutcomes :
        /\ o.tag = "reply" => backendUp
        /\ outcome' = o
        /\ response' = deeppy_chat_finish(o)
    /\ pc' = "done"
    /\ UNCHANGED <<rawText, sanitized, MAX_INPUT_LENGTH, variant, endpoint, request, handlerRan, prompt,
                   requestLog, backendCalls, backendUp, healthQuery>>

\* health_check of deeppy.py: a fixed body, the backend is not consulted
DeeppyHealth ==
    /\ pc = "idle"
    /\ variant' = "deeppy"
    /\ endpoint' = "health"
    /\ response' = Response(200, "success", "", "Service operational", NoText)
    /\ pc' = "done"
    /\ UNCHANGED <<rawText, sanitized, MAX_INPUT_LENGTH, request, handlerRan, prompt, requestLog,
                   backendCalls, outcome, backendUp, healthQuery>>

(* ------------------------------ index.py ------------------------------ *)

\* abort(code, description), and the HTTP errors request.get_json() raises
abort(code, description) ==
    [tag |-> "raise", resp |-> NoResponse, exc |-> "HTTPException",
     code |-> code, description |-> description]

\* e.name of the HTTP errors
HttpName(code) ==
    CASE code = 400 -> "Bad Request"
      [] code = 415 -> "Unsupported Media Type"
      [] OTHER -> "Unknown Error"

handle_http_error(e) ==
    Response(e.code, "", HttpName(e.code), e.description, NoText)

index_handle_unexpected_error ==
    Response(500, "", "Internal Server Error", "An unexpected error occurred", NoText)

index_errorhandler(r) ==
    IF r.exc = "HTTPException" THEN handle_http_error(r)
    ELSE index_handle_unexpected_error

\* validate_chat_input that only tests the body for emptiness
validate_chat_input_no_key(req, legacy) ==
    IF ~req.is_json
    THEN (IF legacy THEN abort(400, "Missing 'input' field in request body")
          ELSE abort(415, "Did not attempt to load JSON data"))
    ELSE IF req.body.type = "invalid" THEN abort(400, "Failed to decode JSON object")
    ELSE IF ~Truthy(req.body) THEN abort(400, "Missing 'input' field in request body")
    ELSE CallNext

\* validate_chat_input.  request.get_json() on a content type that is not
\* JSON returns None in older Flask releases (legacy) and raises 415 since
\* Flask 2.1; on an unparsable body it raises 400.
validate_chat_input(req, legacy) ==
    IF ~req.is_json
    THEN (IF legacy THEN abort(400, "Missing 'input' field in request body")
          ELSE abort(415, "Did not attempt to load JSON data"))
    ELSE IF req.body.type = "invalid" THEN abort(400, "Failed to decode JSON object")
    ELSE IF ~Truthy(req.body) THEN abort(400, "Missing 'input' field in request body")
    ELSE IF ~Sized(req.body) THEN Raise("TypeError")
    ELSE IF ~HasInput(req.body) THEN abort(400, "Missing 'input' field in request body")
    ELSE CallNext

\* chat_handler of index.py, from the point where ollama_client.chat()
\* returns or raises; the except clauses are tried in source order
index_chat_finish(o) ==
    IF o.tag = "reply"
    THEN (IF o.shape = "content"
          THEN Response(200, "", "", "", o.text)
          ELSE Response(500, "", "Internal Server Error",
                        "An unexpected error occurred during chat processing", NoText))
    ELSE IF o.exc = "ResponseError"
         THEN Response(502, "", "AI Service Error", o.detail, NoText)
    ELSE IF o.exc = "RequestError"
         THEN Response(502, "", "AI Service Error", o.detail, NoText)
    ELSE IF o.exc = "ValueError"
         THEN Response(400, "", "Bad Request", o.detail, NoText)
    ELSE IF o.exc \in ExceptionKinds
         THEN Response(500, "", "Internal Server Error",
                       "An unexpected error occurred during chat processing", NoText)
    ELSE IF o.exc = "KeyboardInterrupt"
         THEN Response(500, "", "Service Interrupted", "Service interrupted by user",
                       NoText)
    ELSE Response(503, "", "Service Unavailable",
                  "AI service is currently unavailable", NoText)

IndexChat ==
    /\ pc = "idle"
    /\ \E req \in Requests, legacy \in BOOLEAN :
        LET r == validate_chat_input(req, legacy) IN
            /\ variant' = "index"
            /\ endpoint' = "chat"
            /\ request' = req
            /\ IF r.tag # "call"
               THEN /\ response' = index_errorhandler(r)
                    /\ pc' = "done"
                    /\ UNCHANGED <<handlerRan, prompt, backendCalls>>
               ELSE IF req.body.type # "object" \/ INPUT_KEY \notin req.body.keys
               THEN \* data["input"] raises inside the try block
                    /\ handlerRan' = TRUE
                    /\ response' = Response(500, "", "Internal Server Error",
                          "An unexpected error occurred during chat processing", NoText)
                    /\ pc' = "done"
                    /\ UNCHANGED <<prompt, backendCalls>>
               ELSE /\ handlerRan' = TRUE
                    /\ prompt' = req.body.input
                    /\ backendCalls' = backendCalls + 1
                    /\ pc' = "calling"
                    /\ UNCHANGED response
    /\ UNCHANGED <<rawText, sanitized, MAX_INPUT_LENGTH, requestLog, outcome, backendUp, healthQuery>>

IndexBackendReturns ==
    /\ pc = "calling"
    /\ variant = "index"
    /\ \E o \in BackendOutcomes \cup {Raises("KeyboardInterrupt", d) : d \in Details} :
        /\ o.tag = "reply" => backendUp
        /\ outcome' = o
        /\ response' = index_chat_finish(o)
    /\ pc' = "done"
    /\ UNCHANGED <<rawText, sanitized, MAX_INPUT_LENGTH, variant, endpoint, request, handlerRan, prompt,
                   requestLog, backendCalls, backendUp, healthQuery>>

\* health_check of index.py: ollama_client.list_models() succeeds or raises
IndexHealth ==
    /\ pc = "idle"
    /\ variant' = "index"
    /\ endpoint' = "health"
    /\ \E ok \in BOOLEAN, d \in Details :
        /\ ok => backendUp
        /\ healthQuery' = IF ok THEN "ok" ELSE "failed"
        /\ response' = IF ok
                       THEN Response(200, "healthy", "", "All systems operational", NoText)
                       ELSE Response(503, "degraded", "", d, NoText)
    /\ pc' = "done"
    /\ UNCHANGED <<rawText, sanitized, MAX_INPUT_LENGTH, request, handlerRan, prompt, requestLog,
                   backendCalls, outcome, backendUp>>

(* --------------------------- environment ------------------------------ *)

\* the backend process goes down or comes back between requests
BackendChanges ==
    /\ pc = "idle"
    /\ backendUp' = ~backendUp
    /\ UNCHANGED <<rawText, sanitized, MAX_INPUT_LENGTH, pc, variant, endpoint, request, handlerRan,
                   prompt, requestLog, backendCalls, outcome, response, healthQuery>>

\* the response is sent; nothing of the request is kept
Finish ==
    /\ pc = "done"
    /\ pc' = "idle"
    /\ variant' = "none"
    /\ endpoint' = "none"
    /\ request' = NoRequest
    /\ handlerRan' = FALSE
    /\ prompt' = JNull
    /\ requestLog' = <<>>
    /\ backendCalls' = 0
    /\ outcome' = NoOutcome
    /\ response' = NoResponse
    /\ healthQuery' = "none"
    /\ UNCHANGED <<rawText, sanitized, MAX_INPUT_LENGTH, backendUp>>

Init ==
    /\ MAX_INPUT_LENGTH \in 1..MaxCfg
    /\ pc = "idle"
    /\ variant = "none"
    /\ endpoint = "none"
    /\ request = NoRequest
    /\ handlerRan = FALSE
    /\ prompt = JNull
    /\ requestLog = <<>>
    /\ backendCalls = 0
    /\ outcome = NoOutcome
    /\ response = NoResponse
    /\ backendUp \in BOOLEAN
    /\ healthQuery = "none"
    /\ rawText = <<>>
    /\ sanitized = <<>>

Next ==
    \/ DeeppyChat
    \/ DeeppyBackendReturns
    \/ DeeppyHealth
    \/ IndexChat
    \/ IndexBackendReturns
    \/ IndexHealth
    \/ BackendChanges
    \/ Finish

Spec == Init /\ [][Next]_vars

(* ----------------------- sanitize_input alone ------------------------- *)

\* how often sanitize_input is applied in a row
SanitizeRounds == 2

SanitizeInit ==
    /\ MAX_INPUT_LENGTH = 1
    /\ pc = "idle"
    /\ variant = "none"
    /\ endpoint = "none"
    /\ request = NoRequest
    /\ handlerRan = FALSE
    /\ prompt = JNull
    /\ requestLog = <<>>
    /\ backendCalls = 0
    /\ outcome = NoOutcome
    /\ response = NoResponse
    /\ backendUp = TRUE
    /\ healthQuery = "none"
    /\ rawText \in Strings
    /\ sanitized = <<>>

\* sanitize_input applied to rawText, then to its own result
Sanitize ==
    /\ Len(sanitized) < SanitizeRounds
    /\ sanitized' = Append(sanitized,
                           sanitize_input(IF sanitized = <<>> THEN rawText
                                          ELSE sanitized[Len(sanitized)]))
    /\ UNCHANGED <<rawText, MAX_INPUT_LENGTH, pc, variant, endpoint, request, handlerRan,
                   prompt, requestLog, backendCalls, outcome, response, backendUp,
                   healthQuery>>

SanitizeSpec == SanitizeInit /\ [][Sanitize]_vars

(* ------------------------------ claims -------------------------------- *)

ChatServed == endpoint = "chat" /\ pc \in {"calling", "done"}

\* the body of the request is a JSON object sent with a JSON content type
ObjectBody == request.is_json /\ request.body.type = "object"

\* C1: a POST /chat whose JSON object body has no 'input' key is answered
\* with status 400 in both variants, and the backend chat call is never
\* made for it.
C1_MissingInputRejected ==
    (ChatServed /\ ObjectBody /\ INPUT_KEY \notin request.body.keys)
        => /\ pc = "done"
           /\ response.code = 400
           /\ backendCalls = 0

C1_Witness ==
    /\ ChatServed /\ ObjectBody
    /\ variant = "index"
    /\ request.body.keys = {MODEL_KEY}
    /\ response.code = 400
    /\ backendCalls = 0

\* the request of deeppy.py carries exactly the key "input" with a string
\* longer than MAX_INPUT_LENGTH
TooLongInput ==
    /\ ChatServed /\ ObjectBody
    /\ variant = "deeppy"
    /\ request.body.keys = {INPUT_KEY}
    /\ request.body.input.type = "string"
    /\ Len(request.body.input.str) > MAX_INPUT_LENGTH

\* C2 as stated: in deeppy.py every body {"input": s} with s longer than
\* MAX_INPUT_LENGTH is answered with 413, whatever the characters of s,
\* strings of whitespace included.
C2_TooLongAlways413 ==
    TooLongInput => (pc = "done" /\ response.code = 413)

\* C2 amended: in deeppy.py every body {"input": s} with s longer than
\* MAX_INPUT_LENGTH and not blank after trimming is answered with 413 and
\* never reaches the backend; a blank s of that length is answered with 422.
C2_TooLongNonBlank413 ==
    TooLongInput =>
        /\ pc = "done"
        /\ backendCalls = 0
        /\ response.code = IF strip(request.body.input.str) = <<>> THEN 422 ELSE 413

C2_Witness ==
    /\ TooLongInput
    /\ request.body.input.str = <<" ", "<", "a">>
    /\ MAX_INPUT_LENGTH = 2
    /\ response.code = 413

\* C3: when the backend chat call raises a connection error, the response
\* of POST /chat has status 503.
C3_ConnectionError503 ==
    (ChatServed /\ pc = "done" /\ outcome.tag = "raise"
                /\ outcome.exc = "ConnectionError")
        => response.code = 503

\* C4: in deeppy.py a request with a JSON content type whose body is a JSON
\* value other than an object is answered with 400 or 415, never 5xx, and
\* without a backend call.
C4_NonObjectRejected ==
    (ChatServed /\ variant = "deeppy" /\ request.is_json
         /\ request.body.type \in {"array", "string", "number", "boolean", "null"})
        => /\ pc = "done"
           /\ response.code \in {400, 415}
           /\ backendCalls = 0

\* C5: in deeppy.py a backend reply that is absent, has no 'message', or has
\* a message with missing or empty content yields an error response; a
\* success response always carries non-empty generated text.
C5_EmptyReplyIsFailure ==
    (ChatServed /\ variant = "deeppy" /\ pc = "done" /\ outcome.tag = "reply")
        => /\ (outcome.shape # "content" \/ outcome.text = NoText)
                  => (response.status = "error" /\ response.code >= 400)
           /\ response.status = "success" => response.response # NoText

\* C6: sanitize_input is idempotent: applying it to its own result changes
\* nothing.
C6_SanitizeIdempotent ==
    \A i \in 2..Len(sanitized) : sanitized[i] = sanitized[1]

C6_Witness ==
    /\ rawText = <<" ", "<", ">">>
    /\ Len(sanitized) >= 2
    /\ sanitized[1] = LT_ENTITY \o GT_ENTITY

\* C7: the body of a failure response caused by a backend exception holds
\* no text of that exception.
C7_NoExceptionTextInBody ==
    (ChatServed /\ pc = "done" /\ outcome.tag = "raise")
        => /\ response.message \notin Details
           /\ response.error \notin Details

\* C8: GET /health queries the backend and answers 200 exactly when the
\* query succeeds and 503 when it fails, in both variants.
C8_HealthReflectsQuery ==
    (endpoint = "health" /\ pc = "done")
        => /\ response.code = 200 <=> healthQuery = "ok"
           /\ response.code = 503 <=> healthQuery = "failed"

Stripped(s) == s = <<>> \/ (~IsSpace(s[1]) /\ ~IsSpace(s[Len(s)]))
NoBrackets(s) == \A i \in 1..Len(s) : s[i] \notin {"<", ">"}

\* C9: every prompt passed to the backend chat call, and every prompt
\* written to the request log, is the sanitized input: trimmed and free of
\* '<' and '>'.
C9_PromptSanitized ==
    (ChatServed /\ backendCalls > 0)
        => /\ prompt.type = "string"
           /\ request.body.input.type = "string"
           /\ prompt.str = sanitize_input(request.body.input.str)
           /\ Stripped(prompt.str) /\ NoBrackets(prompt.str)
           /\ \A i \in 1..Len(requestLog) :
                  Stripped(requestLog[i]) /\ NoBrackets(requestLog[i])

\* the rules of validate_input a JSON object body violates, in their order
ViolatedRules(body) ==
    (IF INPUT_KEY \notin body.keys THEN {1} ELSE {})
    \cup (IF body.keys \ {INPUT_KEY} # {} THEN {2} ELSE {})
    \cup (IF body.input.type # "string" THEN {3}
          ELSE IF \A i \in 1..Len(body.input.str) : body.input.str[i] = " "
               THEN {3} ELSE {})
    \cup (IF body.input.type = "string" /\ Len(body.input.str) > MAX_INPUT_LENGTH
          THEN {4} ELSE {})

FirstRule(rules) == CHOOSE r \in rules : \A q \in rules : r <= q

RuleStatus(r) == <<400, 400, 422, 413>>[r]

RuleMessage(r) ==
    <<"Missing 'input' field", "Unexpected fields in payload",
      "Input must be non-empty string",
      "Input exceeds MAX_INPUT_LENGTH characters">>[r]

\* C10: in deeppy.py a JSON object body violating one or more rules (missing
\* 'input', extra key, input not a string or blank, input too long) gets
\* exactly the response of the earliest violated rule, and chat_handler is
\* not run.
C10_FirstFailingRuleWins ==
    (ChatServed /\ variant = "deeppy" /\ ObjectBody
         /\ ViolatedRules(request.body) # {})
        => /\ pc = "done"
           /\ ~handlerRan
           /\ backendCalls = 0
           /\ response.code = RuleStatus(FirstRule(ViolatedRules(request.body)))
           /\ response.message = RuleMessage(FirstRule(ViolatedRules(request.body)))

C10_Witness ==
    /\ ChatServed /\ variant = "deeppy" /\ ObjectBody
    /\ ViolatedRules(request.body) = {2, 3, 4}
    /\ response.code = 400
    /\ response.message = "Unexpected fields in payload"

=============================================================================
